---- MODULE Spec2Model ----
(***************************************************************************)
(* Model of mailer-service: the email lifecycle (handlers/email.go over    *)
(* storage.Store), the bounded SMTP delivery step (sendSMTP) and the       *)
(* versioned template store.  Each HTTP request is served by its own       *)
(* goroutine; a request in flight is a process p of Procs.  Every SQL      *)
(* statement is one atomic step; statements of one handler interleave with *)
(* the statements of the handlers running concurrently.                    *)
(*                                                                         *)
(* Strings the code inspects character by character (addresses, subjects,  *)
(* bodies) are sequences of one-character strings.  Timestamps are         *)
(* abstracted: sent_at is NULL or the value of NOW(), created_at of a      *)
(* template version is its insertion rank.                                 *)
(***************************************************************************)
EXTENDS Integers, Sequences, FiniteSets, TLC

\* ------------------------------------------------------------------ bounds

\* Requests are served concurrently; two run at a time in this model.
Procs == {"p1", "p2"}

\* Highest id the emails BIGSERIAL sequence hands out in a run.
MaxEmails == 2

\* Rows of template_versions in a run, the seeded one included.
MaxVersions == 4

\* Rows of template_versions in the runs where two requests write templates.
MaxConcurrentVersions == 2

\* Rows of template_versions in the runs where two requests create versions.
MaxRaceVersions == 3

\* Emails sent in the runs that write templates and send from them.
MaxRenderEmails == 1

\* ------------------------------------------------------------ input values

NULL == "NULL"
NowTs == "NOW()"

Addr1 == <<"a", "@", "b", ".", "c">>
Addr2 == <<"x", "@", "y", ".", "z">>
AddrNoAt == <<"a", "b", ".", "c", "d">>
AddrShort == <<"@", ".">>
Blank == <<" ">>
Empty == <<>>
Subj1 == <<"s", "1">>
Subj2 == <<"s", "2">>
Body1 == <<"b", "1">>
Body2 == <<"b", "2">>

Content(to, subject, body) == [to |-> to, subject |-> subject, body |-> body]

\* Request bodies the handlers accept, and ones they reject.
ValidContents == {Content(Addr1, Subj1, Body1), Content(Addr2, Subj2, Body2)}
InvalidContents == {Content(Addr1, Subj1, Blank), Content(AddrNoAt, Subj1, Body1)}
\* What a direct send is asked to send, and what a draft is written with.
InvalidSends ==
    {Content(Blank, Subj1, Body1), Content(Addr1, Blank, Body1), Content(AddrShort, Subj1, Body1)}
SendInputs == {Content(Addr1, Subj1, Body1)} \cup InvalidContents \cup InvalidSends
DraftInputs == ValidContents \cup InvalidContents

\* Template keys and locales are compared whole, never by character.
SeedKey == "bienvenida"
OtherKey == "promo"
DefaultLocale == "es-GT"
OtherLocale == "en-US"
KeyInputs == {SeedKey, OtherKey, " "}
LocaleInputs == {DefaultLocale, OtherLocale, ""}

\* A template string, as text/template and html/template lex it: literal text,
\* {{ .field }} actions, and text the parser rejects.
Lit(s) == [k |-> "lit", v |-> s, f |-> ""]
Field(name) == [k |-> "field", v |-> <<>>, f |-> name]
Bad == [k |-> "bad", v |-> <<>>, f |-> ""]

NullString(valid, s) == [Valid |-> valid, String |-> s]

\* The seeded version of migrate (part_001 240-243), its literal text shortened.
SeedSubject == <<Lit(<<"H", "i", " ">>), Field("userName")>>
SeedHTML == <<Lit(<<"<", "b", ">">>), Field("userName"), Lit(<<"<", "/", "b", ">">>)>>
SeedText == <<Lit(<<"H", "i", " ">>), Field("userName")>>

TplContent(subject, bodyHTML, bodyText) ==
    [subject |-> subject, bodyHTML |-> bodyHTML, bodyText |-> bodyText]

\* What a new version is created with: a text body alone, or no subject.
TplTextOnly ==
    TplContent(<<Lit(<<"Y", "o">>)>>, NullString(FALSE, Empty),
               NullString(TRUE, <<Lit(<<"t", " ">>), Field("userName")>>))
TplNoSubject == TplContent(<<Lit(Blank)>>, NullString(FALSE, Empty), NullString(TRUE, SeedText))
\* Versions a templated send cannot render or has no body to send from: no body
\* at all, a subject or a text body the parser rejects, an HTML body that renders
\* to nothing.
TplNoBody == TplContent(<<Lit(<<"Y", "o">>)>>, NullString(FALSE, Empty), NullString(FALSE, Empty))
TplBadSubject == TplContent(<<Bad>>, NullString(FALSE, Empty), NullString(TRUE, SeedText))
TplBadText == TplContent(<<Lit(<<"Y", "o">>)>>, NullString(TRUE, SeedHTML), NullString(TRUE, <<Bad>>))
TplEmptyHTML ==
    TplContent(<<Lit(<<"Y", "o">>)>>, NullString(TRUE, <<Field("missing")>>),
               NullString(TRUE, <<Lit(<<"t", " ">>), Field("userName")>>))
\* A version whose HTML body and text body are the same template.
TplBoth ==
    TplContent(<<Lit(<<"Y", "o">>)>>, NullString(TRUE, <<Lit(<<"v", " ">>), Field("userName")>>),
               NullString(TRUE, <<Lit(<<"v", " ">>), Field("userName")>>))
TplContentInputs ==
    {TplTextOnly, TplNoSubject, TplNoBody, TplBadSubject, TplBadText, TplEmptyHTML, TplBoth}

\* The data of a templated send.
DataAna == [userName |-> <<"A", "n", "a">>]
DataScript == [userName |-> <<"<", "s", ">">>]
DataInputs == {DataAna}
\* The data of a send whose value is markup ("<script>", shortened).
ScriptTag == <<"<", "s", ">">>
ScriptInputs == {DataAna, DataScript}

\* Error texts.
ErrTimeout == "timeout en envio SMTP"
ErrCreds == "credenciales SMTP no configuradas (SMTP_USERNAME/SMTP_PASSWORD)"
ErrSmtp == "smtp: delivery failed"
ErrNil == "nil"

\* ------------------------------------------------------------------- state

VARIABLES
    emails,      \* table emails: id -> row
    nextId,      \* next value of the emails id sequence
    templates,   \* table templates: tpl_key -> id
    versions,    \* table template_versions: a set of rows
    tvSeq,       \* rows inserted into template_versions so far (rank of created_at)
    credsOK,     \* SMTP_USERNAME and SMTP_PASSWORD are both set
    pc,          \* per request goroutine: where its handler stands
    rq,          \* locals of an email handler: the arguments it works on
    tq,          \* locals of a template handler
    sendErr,     \* what sendSMTP returned to the handler
    resp,        \* the response the step just taken wrote to its caller (NoResp: none)
    smtp,        \* the goroutine running smtp.SendMail: idle, running, returned
    chanC,       \* content of the buffered channel c (capacity 1)
    timer,       \* time.After: off, armed, fired
    late,        \* the timer fired while smtp.SendMail was still running
    attempts     \* per email id: how many times smtp.SendMail was started

emailVars == <<emails, nextId>>
tplVars == <<templates, versions, tvSeq>>
smtpVars == <<smtp, chanC, timer, late, attempts>>
vars == <<emails, nextId, templates, versions, tvSeq, credsOK, pc, rq, tq, sendErr,
          resp, smtp, chanC, timer, late, attempts>>

\* --------------------------------------------------------- pure functions

\* strings.TrimSpace(s) == ""
IsBlank(s) == \A i \in 1..Len(s) : s[i] = " "

\* strings.TrimSpace(s) == "" for the keys and locales of KeyInputs, LocaleInputs
IsBlankName(s) == s \in {"", " "}

Contains(s, ch) == \E i \in 1..Len(s) : s[i] = ch

\* Variant: every recipient is accepted.
isValidEmailAny(email) == TRUE

isValidEmail(email) == Len(email) > 3 /\ Contains(email, "@") /\ Contains(email, ".")

\* id: the id InsertQueued returned (0: none yet); target: the id of the request path.
\* The message sendSMTP has not built yet.
NoMsg == [contentType |-> "none", parts |-> <<>>]

NoArgs == [to |-> Empty, subject |-> Empty, bodyText |-> Empty, bodyHTML |-> Empty,
           id |-> 0, target |-> 0, key |-> "", locale |-> "", data |-> <<>>,
           msg |-> NoMsg]

NoTplArgs == [key |-> "", locale |-> "", version |-> 0, tplID |-> 0, nextVer |-> 0,
              subject |-> <<>>, bodyHTML |-> NullString(FALSE, <<>>),
              bodyText |-> NullString(FALSE, <<>>), isActive |-> FALSE]

\* The Message of a response (models.EmailResponse); a response written as a
\* bare {"success": true} has none.
MsgSent == "Correo enviado exitosamente"
MsgSentTpl == "Correo enviado (plantilla)"
MsgDraft == "Borrador creado (id=%d)"
MsgUpdated == "Borrador actualizado"
MsgNone == ""
MsgError == "Error enviando correo"

\* models.EmailResponse as the caller reads it; id is the %d of MsgDraft.
NoResp == [proc |-> "none", success |-> FALSE, message |-> "none", error |-> "none", id |-> 0]
OkResp(message) == [success |-> TRUE, message |-> message, error |-> "", id |-> 0]
\* sendErrorResponse (email.go 348-354)
ErrResp(msg) == [success |-> FALSE, message |-> MsgError, error |-> msg, id |-> 0]
DraftResp(newId) == [success |-> TRUE, message |-> MsgDraft, error |-> "", id |-> newId]

\* ------------------------------------------------------------------- store

NewRow(to, subject, body, status) ==
    [to_addr |-> to, subject |-> subject, body |-> body, status |-> status,
     error |-> NULL, sent_at |-> NULL]

\* Variant: the INSERT of the queued row is lost.
InsertQueuedLost(tbl, newId, to, subject, body) == tbl

\* INSERT INTO emails (...) VALUES ($1, $2, $3, 'queued', NOW()) RETURNING id
InsertQueued(tbl, newId, to, subject, body) ==
    [i \in DOMAIN tbl \cup {newId} |->
        IF i = newId THEN NewRow(to, subject, body, "queued") ELSE tbl[i]]

\* INSERT INTO emails (...) VALUES ($1,$2,$3,'draft', NOW()) RETURNING id
InsertDraft(tbl, newId, to, subject, body) ==
    [i \in DOMAIN tbl \cup {newId} |->
        IF i = newId THEN NewRow(to, subject, body, "draft") ELSE tbl[i]]

\* Variant: the UPDATE has no WHERE clause.
MarkRowsAll(tbl, rowId) == DOMAIN tbl

\* The rows UPDATE emails ... WHERE id=$1 matches.
MarkRows(tbl, rowId) == {i \in DOMAIN tbl : i = rowId}

\* Variant: the status is written without sent_at.
MarkSentNoTimestamp(tbl, rowId) ==
    [i \in DOMAIN tbl |-> IF i = rowId THEN [tbl[i] EXCEPT !.status = "sent"] ELSE tbl[i]]

\* Variant: the UPDATE stamps sent_at and leaves the status.
MarkSentStampOnly(tbl, rowId) ==
    [i \in DOMAIN tbl |-> IF i = rowId THEN [tbl[i] EXCEPT !.sent_at = NowTs] ELSE tbl[i]]

\* UPDATE emails SET status='sent', sent_at=NOW() WHERE id=$1
MarkSent(tbl, rowId) ==
    [i \in DOMAIN tbl |->
        IF i \in MarkRows(tbl, rowId)
        THEN [tbl[i] EXCEPT !.status = "sent", !.sent_at = NowTs]
        ELSE tbl[i]]

\* Variant: the reason stored is that of a transport failure, whatever failed.
MarkFailedGeneric(tbl, rowId, msg) ==
    [i \in DOMAIN tbl |->
        IF i = rowId THEN [tbl[i] EXCEPT !.status = "failed", !.error = ErrSmtp] ELSE tbl[i]]

\* Variant: the UPDATE of MarkFailed has no WHERE clause.
MarkFailedAll(tbl, rowId, msg) ==
    [i \in DOMAIN tbl |-> [tbl[i] EXCEPT !.status = "failed", !.error = msg]]

\* UPDATE emails SET status='failed', error=$1 WHERE id=$2
MarkFailed(tbl, rowId, msg) ==
    [i \in DOMAIN tbl |->
        IF i \in MarkRows(tbl, rowId)
        THEN [tbl[i] EXCEPT !.status = "failed", !.error = msg]
        ELSE tbl[i]]

\* Variant: the WHERE clause of the update has no status condition.
DraftRowsAnyStatus(tbl, rowId) == {i \in DOMAIN tbl : i = rowId}

\* The rows UPDATE emails ... WHERE id=$4 AND status='draft' matches.
DraftRows(tbl, rowId) == {i \in DOMAIN tbl : i = rowId /\ tbl[i].status = "draft"}

\* Variant: the content is written whatever the status, the count of rows affected
\* still that of the drafts.
UpdateDraftUnguarded(tbl, rowId, to, subject, body) ==
    [i \in DOMAIN tbl |->
        IF i = rowId
        THEN [tbl[i] EXCEPT !.to_addr = to, !.subject = subject, !.body = body]
        ELSE tbl[i]]

\* UPDATE emails SET to_addr=$1, subject=$2, body=$3 WHERE id=$4 AND status='draft'
UpdateDraft(tbl, rowId, to, subject, body) ==
    [i \in DOMAIN tbl |->
        IF i \in DraftRows(tbl, rowId)
        THEN [tbl[i] EXCEPT !.to_addr = to, !.subject = subject, !.body = body]
        ELSE tbl[i]]

\* aff == 1
UpdateDraftOk(tbl, rowId) == Cardinality(DraftRows(tbl, rowId)) = 1

\* DELETE FROM emails WHERE id=$1
DeleteEmail(tbl, rowId) == [i \in DOMAIN tbl \ {rowId} |-> tbl[i]]

\* -------------------------------------------------------- template store

\* SELECT id FROM templates WHERE tpl_key=$1 (0: no rows)
TemplateID(tpls, key) == IF key \in DOMAIN tpls THEN tpls[key] ELSE 0

\* An insert that gives the key a new row whether or not it has one.
EnsureTemplateInsert(tpls, key) ==
    [k \in DOMAIN tpls \cup {key} |->
        IF k = key THEN Cardinality(DOMAIN tpls) + 1 ELSE tpls[k]]

\* INSERT INTO templates ... ON CONFLICT (tpl_key) DO UPDATE SET updated_at=... RETURNING id
EnsureTemplate(tpls, key) ==
    IF key \in DOMAIN tpls
    THEN tpls
    ELSE [k \in DOMAIN tpls \cup {key} |->
            IF k = key THEN Cardinality(DOMAIN tpls) + 1 ELSE tpls[k]]

SetMax(S) == CHOOSE m \in S : \A x \in S : x <= m

\* A numbering by the rows of the whole table.
NextVersionByCount(vs, tplID) == Cardinality(vs) + 1

\* SELECT COALESCE(MAX(version),0)+1 FROM template_versions WHERE template_id=$1
NextVersion(vs, tplID) ==
    LET own == {r.version : r \in {x \in vs : x.template_id = tplID}}
    IN  (IF own = {} THEN 0 ELSE SetMax(own)) + 1

\* A table without the constraint.
NoUniqueViolation(vs, tplID, version, locale) == FALSE

\* UNIQUE(template_id, version, locale)
UniqueViolation(vs, tplID, version, locale) ==
    \E r \in vs : r.template_id = tplID /\ r.version = version /\ r.locale = locale

\* INSERT INTO template_versions (...) VALUES ($1,$2,$3,$4,$5,$6,$7,NOW())
InsertVersion(vs, rank, tplID, version, locale, subject, bodyHTML, bodyText, isActive) ==
    vs \cup {[template_id |-> tplID, version |-> version, locale |-> locale,
              subject |-> subject, body_html |-> bodyHTML, body_text |-> bodyText,
              is_active |-> isActive, created_at |-> rank]}

\* FROM template_versions v JOIN templates t ON t.id = v.template_id WHERE t.tpl_key = $1
KeyRows(tpls, vs, key) ==
    {r \in vs : key \in DOMAIN tpls /\ r.template_id = tpls[key]}

\* Variant: q1 without its locale condition.
DeactivateRowsAnyLocale(tpls, vs, key, locale) == KeyRows(tpls, vs, key)

\* The rows q1 of ActivateTemplateVersion matches: ... AND v.locale=$2
DeactivateRows(tpls, vs, key, locale) ==
    {r \in KeyRows(tpls, vs, key) : r.locale = locale}

\* The rows q2 of ActivateTemplateVersion matches: ... AND v.locale=$2 AND v.version=$3
ActivateRows(tpls, vs, key, locale, version) ==
    {r \in KeyRows(tpls, vs, key) : r.locale = locale /\ r.version = version}

\* A deactivation that removes the rows.
DeactivateByDelete(tpls, vs, key, locale) == vs \ DeactivateRows(tpls, vs, key, locale)

\* UPDATE template_versions v SET is_active=FALSE FROM templates t WHERE ...
Deactivate(tpls, vs, key, locale) ==
    {IF r \in DeactivateRows(tpls, vs, key, locale)
     THEN [r EXCEPT !.is_active = FALSE] ELSE r : r \in vs}

\* UPDATE template_versions v SET is_active=TRUE FROM templates t WHERE ...
Activate(tpls, vs, key, locale, version) ==
    {IF r \in ActivateRows(tpls, vs, key, locale, version)
     THEN [r EXCEPT !.is_active = TRUE] ELSE r : r \in vs}

\* if locale == "" { locale = "es-GT" }
LocaleOrDefault(locale) == IF locale = "" THEN DefaultLocale ELSE locale

\* The first query without its is_active condition.
AnyExact(tpls, vs, key, locale) ==
    {r \in KeyRows(tpls, vs, key) : r.locale = LocaleOrDefault(locale)}

\* The rows the first query of GetActiveTemplateVersion may return (LIMIT 1, no order).
ActiveExact(tpls, vs, key, locale) ==
    {r \in KeyRows(tpls, vs, key) : r.locale = LocaleOrDefault(locale) /\ r.is_active}

\* The second query with the other order: the oldest active version of the key.
ActiveOldest(tpls, vs, key) ==
    LET act == {r \in KeyRows(tpls, vs, key) : r.is_active}
    IN  {r \in act : \A o \in act : r.created_at <= o.created_at}

\* The row its second query returns: ORDER BY v.created_at DESC LIMIT 1.
ActiveNewest(tpls, vs, key) ==
    LET act == {r \in KeyRows(tpls, vs, key) : r.is_active}
    IN  {r \in act : \A o \in act : o.created_at <= r.created_at}

\* What GetActiveTemplateVersion may return when both queries read the same state.
GetActiveTemplateVersion(tpls, vs, key, locale) ==
    IF ActiveExact(tpls, vs, key, locale) # {}
    THEN ActiveExact(tpls, vs, key, locale)
    ELSE ActiveNewest(tpls, vs, key)

\* ---------------------------------------------------------------- renderer

\* A table that replaces nothing.
NoEscapeChar(c) == <<c>>

\* html/template's replacement table for text nodes.
HTMLEscapeChar(c) ==
    CASE c = "<" -> <<"&", "l", "t", ";">>
      [] c = ">" -> <<"&", "g", "t", ";">>
      [] c = "&" -> <<"&", "a", "m", "p", ";">>
      [] c = "\"" -> <<"&", "#", "3", "4", ";">>
      [] c = "'" -> <<"&", "#", "3", "9", ";">>
      [] c = "+" -> <<"&", "#", "4", "3", ";">>
      [] OTHER -> <<c>>

RECURSIVE HTMLEscape(_)
HTMLEscape(s) == IF s = <<>> THEN <<>> ELSE HTMLEscapeChar(Head(s)) \o HTMLEscape(Tail(s))

NoValue == <<"<", "n", "o", " ", "v", "a", "l", "u", "e", ">">>

\* Parse: the template is rejected when the parser meets text it cannot read.
Parses(tpl) == \A i \in 1..Len(tpl) : tpl[i].k # "bad"

\* Execute of text/template: the value as it is; a key the map lacks prints <no value>.
RECURSIVE ExecText(_, _)
ExecText(tpl, data) ==
    IF tpl = <<>> THEN <<>>
    ELSE LET t == Head(tpl)
             out == IF t.k = "lit" THEN t.v
                    ELSE IF t.f \in DOMAIN data THEN data[t.f] ELSE NoValue
         IN  out \o ExecText(Tail(tpl), data)

\* Execute of html/template: the value escaped; a key the map lacks prints nothing.
RECURSIVE ExecHTML(_, _)
ExecHTML(tpl, data) ==
    IF tpl = <<>> THEN <<>>
    ELSE LET t == Head(tpl)
             out == IF t.k = "lit" THEN t.v
                    ELSE IF t.f \in DOMAIN data THEN HTMLEscape(data[t.f]) ELSE <<>>
         IN  out \o ExecHTML(Tail(tpl), data)

renderText(tpl, data) ==
    IF Parses(tpl) THEN [err |-> FALSE, out |-> ExecText(tpl, data)]
    ELSE [err |-> TRUE, out |-> <<>>]

renderHTML(tpl, data) ==
    IF Parses(tpl) THEN [err |-> FALSE, out |-> ExecHTML(tpl, data)]
    ELSE [err |-> TRUE, out |-> <<>>]

\* ------------------------------------------------------------------- Init

\* The state Open leaves: empty emails, and the seed of migrate (part_001 236-251).
Init ==
    /\ emails = <<>>
    /\ nextId = 1
    /\ templates = (SeedKey :> 1)
    /\ versions = InsertVersion({}, 1, 1, 1, DefaultLocale, SeedSubject,
                                NullString(TRUE, SeedHTML), NullString(TRUE, SeedText), TRUE)
    /\ tvSeq = 1
    /\ credsOK \in BOOLEAN
    /\ pc = [p \in Procs |-> "idle"]
    /\ rq = [p \in Procs |-> NoArgs]
    /\ tq = [p \in Procs |-> NoTplArgs]
    /\ sendErr = [p \in Procs |-> ErrNil]
    /\ resp = NoResp
    /\ smtp = [p \in Procs |-> "idle"]
    /\ chanC = [p \in Procs |-> <<>>]
    /\ timer = [p \in Procs |-> "off"]
    /\ late = [p \in Procs |-> FALSE]
    /\ attempts = [i \in 1..MaxEmails |-> 0]

\* The handler goes on to its next statement with these locals.
Goto(p, label, args, targs) ==
    /\ pc' = [pc EXCEPT ![p] = label]
    /\ rq' = [rq EXCEPT ![p] = args]
    /\ tq' = [tq EXCEPT ![p] = targs]
    /\ resp' = NoResp
    /\ UNCHANGED sendErr

\* The handler writes its response and returns; its locals are gone.
Return(p, response) ==
    /\ pc' = [pc EXCEPT ![p] = "idle"]
    /\ rq' = [rq EXCEPT ![p] = NoArgs]
    /\ tq' = [tq EXCEPT ![p] = NoTplArgs]
    /\ sendErr' = [sendErr EXCEPT ![p] = ErrNil]
    /\ resp' = [proc |-> p, success |-> response.success, message |-> response.message,
                error |-> response.error, id |-> response.id]

\* A request starts on a goroutine of its own: nothing of an earlier request's
\* sendSMTP call (its channel, its timer, its goroutine) is visible to it.
NewRequest(p) ==
    /\ pc[p] = "idle"
    /\ smtp' = [smtp EXCEPT ![p] = "idle"]
    /\ chanC' = [chanC EXCEPT ![p] = <<>>]
    /\ timer' = [timer EXCEPT ![p] = "off"]
    /\ late' = [late EXCEPT ![p] = FALSE]

SendArgs(to, subject, bodyText, bodyHTML) ==
    [NoArgs EXCEPT !.to = to, !.subject = subject, !.bodyText = bodyText, !.bodyHTML = bodyHTML]

\* ------------------------------------------------------ SendEmailHandler

\* Decode, validate, then persist as queued (email.go 45-64).
SendEmailHandler(p) ==
    /\ NewRequest(p)
    /\ \E c \in SendInputs :
        IF IsBlank(c.to) \/ IsBlank(c.subject) \/ IsBlank(c.body)
        THEN /\ Return(p, ErrResp("Todos los campos (to, subject, body) son requeridos"))
             /\ UNCHANGED emailVars
        ELSE IF ~isValidEmail(c.to)
        THEN /\ Return(p, ErrResp("Formato de email destinatario invalido"))
             /\ UNCHANGED emailVars
        ELSE \E dbOk \in BOOLEAN :
            IF ~dbOk
            THEN /\ Return(p, ErrResp("Error BD (queued)"))
                 /\ UNCHANGED emailVars
            ELSE /\ nextId <= MaxEmails
                 /\ emails' = InsertQueued(emails, nextId, c.to, c.subject, c.body)
                 /\ nextId' = nextId + 1
                 /\ Goto(p, "sendSMTP",
                         [SendArgs(c.to, c.subject, Empty, c.body) EXCEPT !.id = nextId],
                         NoTplArgs)
    /\ UNCHANGED <<tplVars, credsOK, attempts>>

\* ------------------------------------------------ SendFromTemplateHandler

ErrNoTemplate == "Plantilla no encontrada o inactiva"

\* email.go 123-149: render the parts of tv, choose the body to persist.
Render(p, key, locale, tv, to, data) ==
    LET subject == renderText(tv.subject, data)
        html == IF tv.body_html.Valid THEN renderHTML(tv.body_html.String, data)
                ELSE [err |-> FALSE, out |-> Empty]
        text == IF tv.body_text.Valid THEN renderText(tv.body_text.String, data)
                ELSE [err |-> FALSE, out |-> Empty]
        bodyPersist == IF html.out = Empty THEN text.out ELSE html.out
    IN  IF subject.err THEN Return(p, ErrResp("Error renderizando subject"))
        ELSE IF html.err THEN Return(p, ErrResp("Error renderizando HTML"))
        ELSE IF text.err THEN Return(p, ErrResp("Error renderizando texto"))
        ELSE IF bodyPersist = Empty
        THEN Return(p, ErrResp("La plantilla activa no tiene cuerpo (HTML/texto)"))
        ELSE Goto(p, "tplInsert",
                  [SendArgs(to, subject.out, text.out, html.out)
                      EXCEPT !.key = key, !.locale = locale],
                  NoTplArgs)

\* email.go 104-149 with the first query of GetActiveTemplateVersion (part_001 336-345).
SendFromTemplate(p, datas) ==
    /\ NewRequest(p)
    /\ \E to \in {Addr1, AddrNoAt}, key \in KeyInputs :
        IF IsBlankName(key) \/ ~isValidEmail(to)
        THEN Return(p, ErrResp("templateKey y to son requeridos / formato email invalido"))
        ELSE \E locale \in LocaleInputs, data \in datas, dbOk \in BOOLEAN :
            IF ~dbOk
            THEN Return(p, ErrResp(ErrNoTemplate))
            ELSE IF ActiveExact(templates, versions, key, locale) = {}
            THEN Goto(p, "tplQ2", [NoArgs EXCEPT !.to = to, !.key = key, !.locale = locale,
                                                  !.data = data], NoTplArgs)
            ELSE \E tv \in ActiveExact(templates, versions, key, locale) :
                    Render(p, key, locale, tv, to, data)
    /\ UNCHANGED <<emailVars, tplVars, credsOK, attempts>>

\* POST /send-from-template with the data of DataInputs.
SendFromTemplateHandler(p) == SendFromTemplate(p, DataInputs)

\* The second query of GetActiveTemplateVersion (part_001 346-359), then email.go 118-149.
TemplateFallback(p) ==
    /\ pc[p] = "tplQ2"
    /\ \E dbOk \in BOOLEAN :
        IF ~dbOk \/ ActiveNewest(templates, versions, rq[p].key) = {}
        THEN Return(p, ErrResp(ErrNoTemplate))
        ELSE \E tv \in ActiveNewest(templates, versions, rq[p].key) :
                Render(p, rq[p].key, rq[p].locale, tv, rq[p].to, rq[p].data)
    /\ UNCHANGED <<emailVars, tplVars, credsOK, smtpVars>>

\* The insert with the other order of choice: the text body first.
TemplateInsertTextFirst(p) ==
    /\ pc[p] = "tplInsert"
    /\ \E dbOk \in BOOLEAN :
        IF ~dbOk
        THEN /\ Return(p, ErrResp("Error BD (queued)"))
             /\ UNCHANGED emailVars
        ELSE /\ nextId <= MaxEmails
             /\ emails' = InsertQueued(emails, nextId, rq[p].to, rq[p].subject,
                    IF rq[p].bodyText = Empty THEN rq[p].bodyHTML ELSE rq[p].bodyText)
             /\ nextId' = nextId + 1
             /\ Goto(p, "sendSMTP", [rq[p] EXCEPT !.id = nextId, !.locale = ""], NoTplArgs)
    /\ UNCHANGED <<tplVars, credsOK, smtpVars>>

\* email.go 142-155: persist as queued the body chosen; req.Locale is not read again.
TemplateInsertQueued(p) ==
    /\ pc[p] = "tplInsert"
    /\ \E dbOk \in BOOLEAN :
        IF ~dbOk
        THEN /\ Return(p, ErrResp("Error BD (queued)"))
             /\ UNCHANGED emailVars
        ELSE /\ nextId <= MaxEmails
             /\ emails' = InsertQueued(emails, nextId, rq[p].to, rq[p].subject,
                    IF rq[p].bodyHTML = Empty THEN rq[p].bodyText ELSE rq[p].bodyHTML)
             /\ nextId' = nextId + 1
             /\ Goto(p, "sendSMTP", [rq[p] EXCEPT !.id = nextId, !.locale = ""], NoTplArgs)
    /\ UNCHANGED <<tplVars, credsOK, smtpVars>>

\* ---------------------------------------------------------------- sendSMTP

\* Where the handler goes with the error sendSMTP returned (email.go 67-73, 157-163).
ErrSending == "Error enviando correo: "

\* Variant: whatever sendSMTP returned, the record is marked sent.
AfterSendSent(err) == "markSent"

\* Variant: a send that failed is tried again.
AfterSendRetry(err) == IF err = ErrNil THEN "markSent" ELSE "sendSMTP"

AfterSend(err) == IF err = ErrNil THEN "markSent" ELSE "markFailed"

\* One body part of a message: its Content-Type and its body.
Part(ct, body) == [ct |-> ct, body |-> body]

\* Variant: the HTML part is written first.
FormatMessageHTMLFirst(bodyText, bodyHTML) ==
    IF bodyHTML # Empty /\ bodyText # Empty
    THEN [contentType |-> "multipart/alternative",
          parts |-> <<Part("text/html", bodyHTML), Part("text/plain", bodyText)>>]
    ELSE IF bodyHTML # Empty
    THEN [contentType |-> "text/html", parts |-> <<Part("text/html", bodyHTML)>>]
    ELSE [contentType |-> "text/plain", parts |-> <<Part("text/plain", bodyText)>>]

\* email.go 285-317: the Content-Type of the message and its parts in the order
\* they are written; the From, To and Subject headers are the same in both forms.
FormatMessage(bodyText, bodyHTML) ==
    IF bodyHTML # Empty /\ bodyText # Empty
    THEN [contentType |-> "multipart/alternative",
          parts |-> <<Part("text/plain", bodyText), Part("text/html", bodyHTML)>>]
    ELSE IF bodyHTML # Empty
    THEN [contentType |-> "text/html", parts |-> <<Part("text/html", bodyHTML)>>]
    ELSE [contentType |-> "text/plain", parts |-> <<Part("text/plain", bodyText)>>]

\* email.go 270-321: the credentials check, the message, then the goroutine and
\* the timer.
SendSMTPStart(p) ==
    /\ pc[p] = "sendSMTP"
    /\ IF ~credsOK
       THEN /\ sendErr' = [sendErr EXCEPT ![p] = ErrCreds]
            /\ pc' = [pc EXCEPT ![p] = AfterSend(ErrCreds)]
            /\ UNCHANGED <<rq, smtp, timer, attempts>>
       ELSE /\ rq' = [rq EXCEPT ![p].msg = FormatMessage(rq[p].bodyText, rq[p].bodyHTML)]
            /\ smtp' = [smtp EXCEPT ![p] = "running"]
            /\ timer' = [timer EXCEPT ![p] = "armed"]
            /\ attempts' = [attempts EXCEPT ![rq[p].id] = @ + 1]
            /\ pc' = [pc EXCEPT ![p] = "select"]
            /\ UNCHANGED sendErr
    /\ resp' = NoResp
    /\ UNCHANGED <<emailVars, tplVars, credsOK, tq, chanC, late>>

\* email.go 320: c := make(chan error, 1)
ChanCap == 1

\* Variant: c is unbuffered, a send goes through only to a receiver waiting in
\* the select.
CanSendUnbuffered(p) == pc[p] = "select"

\* c <- v goes through without a receiver while the buffer of c has room.
CanSend(p) == Len(chanC[p]) < ChanCap

\* Variant: the result of smtp.SendMail is also written to the error the
\* handler holds, whether or not the select is still waiting for it.
SendMailReturnsIntoErr(p) ==
    /\ smtp[p] = "running"
    /\ Len(chanC[p]) < 1
    /\ \E result \in {ErrNil, ErrSmtp} :
        /\ chanC' = [chanC EXCEPT ![p] = Append(@, result)]
        /\ sendErr' = [sendErr EXCEPT ![p] = result]
    /\ smtp' = [smtp EXCEPT ![p] = "returned"]
    /\ resp' = NoResp
    /\ UNCHANGED <<emailVars, tplVars, credsOK, pc, rq, tq, timer, late, attempts>>

\* email.go 321: smtp.SendMail returns and its result goes into c, which holds
\* one value, so the send never waits for a receiver.
SendMailReturns(p) ==
    /\ smtp[p] = "running"
    /\ CanSend(p)
    /\ \E result \in {ErrNil, ErrSmtp} :
        chanC' = [chanC EXCEPT ![p] = Append(@, result)]
    /\ smtp' = [smtp EXCEPT ![p] = "returned"]
    /\ resp' = NoResp
    /\ UNCHANGED <<emailVars, tplVars, credsOK, pc, rq, tq, sendErr, timer, late, attempts>>

\* email.go 326: the timer of time.After fires.
TimerFires(p) ==
    /\ timer[p] = "armed"
    /\ timer' = [timer EXCEPT ![p] = "fired"]
    /\ late' = [late EXCEPT ![p] = (smtp[p] = "running")]
    /\ resp' = NoResp
    /\ UNCHANGED <<emailVars, tplVars, credsOK, pc, rq, tq, sendErr, smtp, chanC, attempts>>

\* Variant: a select with no timeout case.
SelectReadyNoTimer(p) == IF Len(chanC[p]) > 0 THEN {"recv"} ELSE {}

\* The cases of the select that are ready (email.go 323-328).
SelectReady(p) ==
    (IF Len(chanC[p]) > 0 THEN {"recv"} ELSE {}) \cup
    (IF timer[p] = "fired" THEN {"timeout"} ELSE {})

\* email.go 323-328: the select takes one ready case.
Select(p) ==
    /\ pc[p] = "select"
    /\ \E case \in SelectReady(p) :
        IF case = "recv"
        THEN /\ sendErr' = [sendErr EXCEPT ![p] = Head(chanC[p])]
             /\ chanC' = [chanC EXCEPT ![p] = Tail(@)]
             /\ pc' = [pc EXCEPT ![p] = AfterSend(Head(chanC[p]))]
        ELSE /\ sendErr' = [sendErr EXCEPT ![p] = ErrTimeout]
             /\ pc' = [pc EXCEPT ![p] = AfterSend(ErrTimeout)]
             /\ UNCHANGED chanC
    /\ timer' = [timer EXCEPT ![p] = "off"]
    /\ late' = [late EXCEPT ![p] = FALSE]
    /\ resp' = NoResp
    /\ UNCHANGED <<emailVars, tplVars, credsOK, rq, tq, smtp, attempts>>

\* email.go 68-70, 158-160: _ = MarkFailed(...); the error of the write is dropped.
MarkFailedStep(p) ==
    /\ pc[p] = "markFailed"
    /\ \E dbOk \in BOOLEAN :
        emails' = IF dbOk THEN MarkFailed(emails, rq[p].id, sendErr[p]) ELSE emails
    /\ Return(p, ErrResp(ErrSending))
    /\ UNCHANGED <<nextId, tplVars, credsOK, smtpVars>>

\* email.go 73-77, 163-167: _ = MarkSent(...); the error of the write is dropped.
MarkSentStep(p) ==
    /\ pc[p] = "markSent"
    /\ \E dbOk \in BOOLEAN :
        emails' = IF dbOk THEN MarkSent(emails, rq[p].id) ELSE emails
    /\ Return(p, OkResp(IF rq[p].key = "" THEN MsgSent ELSE MsgSentTpl))
    /\ UNCHANGED <<nextId, tplVars, credsOK, smtpVars>>

\* ------------------------------------------------------------------ drafts

\* email.go 193-216: validate, then InsertDraft.
CreateDraftHandler(p) ==
    /\ NewRequest(p)
    /\ \E c \in DraftInputs :
        IF IsBlank(c.to) \/ IsBlank(c.subject) \/ IsBlank(c.body)
        THEN /\ Return(p, ErrResp("Todos los campos (to, subject, body) son requeridos"))
             /\ UNCHANGED emailVars
        ELSE IF ~isValidEmail(c.to)
        THEN /\ Return(p, ErrResp("Formato de email destinatario invalido"))
             /\ UNCHANGED emailVars
        ELSE \E dbOk \in BOOLEAN :
            IF ~dbOk
            THEN /\ Return(p, ErrResp("Error BD (draft)"))
                 /\ UNCHANGED emailVars
            ELSE /\ nextId <= MaxEmails
                 /\ emails' = InsertDraft(emails, nextId, c.to, c.subject, c.body)
                 /\ nextId' = nextId + 1
                 /\ Return(p, DraftResp(nextId))
    /\ UNCHANGED <<tplVars, credsOK, attempts>>

\* email.go 231-250: the id of the path and the body of the request, validated.
UpdateDraftHandler(p) ==
    /\ NewRequest(p)
    /\ \E target \in 0..MaxEmails :
        IF target <= 0
        THEN Return(p, ErrResp("ID invalido"))
        ELSE \E c \in DraftInputs :
            IF IsBlank(c.to) \/ IsBlank(c.subject) \/ IsBlank(c.body)
            THEN Return(p, ErrResp("Todos los campos (to, subject, body) son requeridos"))
            ELSE IF ~isValidEmail(c.to)
            THEN Return(p, ErrResp("Formato de email destinatario invalido"))
            ELSE Goto(p, "updateDraft",
                      [SendArgs(c.to, c.subject, Empty, c.body) EXCEPT !.target = target],
                      NoTplArgs)
    /\ UNCHANGED <<emailVars, tplVars, credsOK, attempts>>

ErrNotDraft == "No se encontro borrador o ya no esta en estado draft"
ErrUpdateDraft == "Error BD (update draft)"

\* email.go 252-262 over Store.UpdateDraft (part_001 313-324).
UpdateDraftWrite(p) ==
    /\ pc[p] = "updateDraft"
    /\ \E dbOk \in BOOLEAN :
        IF ~dbOk
        THEN /\ Return(p, ErrResp(ErrUpdateDraft))
             /\ UNCHANGED emails
        ELSE /\ emails' = UpdateDraft(emails, rq[p].target, rq[p].to, rq[p].subject,
                                      rq[p].bodyHTML)
             /\ IF UpdateDraftOk(emails, rq[p].target)
                THEN Return(p, OkResp(MsgUpdated))
                ELSE Return(p, ErrResp(ErrNotDraft))
    /\ UNCHANGED <<nextId, tplVars, credsOK, smtpVars>>

\* email.go 473-484 over Store.DeleteEmail (part_001 426-429).
DeleteEmailHandler(p) ==
    /\ NewRequest(p)
    /\ \E target \in 0..MaxEmails :
        IF target <= 0
        THEN /\ Return(p, ErrResp("ID invalido"))
             /\ UNCHANGED emails
        ELSE \E dbOk \in BOOLEAN :
            IF ~dbOk
            THEN /\ Return(p, ErrResp("Error eliminando"))
                 /\ UNCHANGED emails
            ELSE /\ emails' = DeleteEmail(emails, target)
                 /\ Return(p, OkResp(MsgNone))
    /\ UNCHANGED <<nextId, tplVars, credsOK, attempts>>

\* ------------------------------------------------------- template handlers

\* A template string is blank when strings.TrimSpace leaves nothing of it.
IsBlankTpl(tpl) == \A i \in 1..Len(tpl) : tpl[i].k = "lit" /\ IsBlank(tpl[i].v)

\* email.go 555-567 with the first statement of Store.CreateTemplateVersion
\* (part_001 509-520): SELECT id FROM templates WHERE tpl_key=$1.
CreateTemplateVersionHandler(p) ==
    /\ NewRequest(p)
    /\ \E key \in KeyInputs, locale \in LocaleInputs, c \in TplContentInputs :
        IF IsBlankName(key) \/ IsBlankName(locale) \/ IsBlankTpl(c.subject)
        THEN Return(p, ErrResp("templateKey, locale y subject son requeridos"))
        ELSE \E isActive \in BOOLEAN, dbOk \in BOOLEAN :
            IF ~dbOk
            THEN Return(p, ErrResp("Error creando version"))
            ELSE Goto(p, IF TemplateID(templates, key) = 0 THEN "ensureTemplate" ELSE "nextVer",
                      NoArgs,
                      [NoTplArgs EXCEPT !.key = key, !.locale = locale, !.subject = c.subject,
                                        !.bodyHTML = c.bodyHTML, !.bodyText = c.bodyText,
                                        !.isActive = isActive,
                                        !.tplID = TemplateID(templates, key)])
    /\ UNCHANGED <<emailVars, tplVars, credsOK, attempts>>

\* part_001 511-516: no template of that key was found, EnsureTemplate creates it.
EnsureTemplateStep(p) ==
    /\ pc[p] = "ensureTemplate"
    /\ \E dbOk \in BOOLEAN :
        IF ~dbOk
        THEN /\ Return(p, ErrResp("Error creando version"))
             /\ UNCHANGED templates
        ELSE /\ templates' = EnsureTemplate(templates, tq[p].key)
             /\ Goto(p, "nextVer", NoArgs,
                     [tq[p] EXCEPT !.tplID = EnsureTemplate(templates, tq[p].key)[tq[p].key]])
    /\ UNCHANGED <<emailVars, versions, tvSeq, credsOK, smtpVars>>

\* if nextVer == 0 { nextVer = 1 }
NextVerOrOne(n) == IF n = 0 THEN 1 ELSE n

\* part_001 522-528: the next version number of the template.
NextVersionStep(p) ==
    /\ pc[p] = "nextVer"
    /\ \E dbOk \in BOOLEAN :
        IF ~dbOk
        THEN Return(p, ErrResp("Error creando version"))
        ELSE Goto(p, "insertVersion", NoArgs,
                  [tq[p] EXCEPT !.nextVer = NextVerOrOne(NextVersion(versions, tq[p].tplID))])
    /\ UNCHANGED <<emailVars, tplVars, credsOK, smtpVars>>

\* part_001 530-535: the INSERT, which the UNIQUE constraint may refuse.
InsertVersionStep(p) ==
    /\ pc[p] = "insertVersion"
    /\ \E dbOk \in BOOLEAN :
        IF ~dbOk \/ UniqueViolation(versions, tq[p].tplID, tq[p].nextVer, tq[p].locale)
        THEN /\ Return(p, ErrResp("Error creando version"))
             /\ UNCHANGED <<versions, tvSeq>>
        ELSE /\ tvSeq < MaxVersions
             /\ versions' = InsertVersion(versions, tvSeq + 1, tq[p].tplID, tq[p].nextVer,
                                          tq[p].locale, tq[p].subject, tq[p].bodyHTML,
                                          tq[p].bodyText, tq[p].isActive)
             /\ tvSeq' = tvSeq + 1
             /\ Return(p, OkResp(MsgNone))
    /\ UNCHANGED <<emailVars, templates, credsOK, smtpVars>>

\* email.go 592-601 with the first statement of Store.ActivateTemplateVersion
\* (part_001 539-544): every version of (key, locale) is deactivated.
ActivateTemplateVersionHandler(p) ==
    /\ NewRequest(p)
    /\ \E key \in KeyInputs, version \in 0..MaxVersions, locale \in LocaleInputs :
        IF IsBlankName(key) \/ version <= 0 \/ IsBlankName(locale)
        THEN /\ Return(p, ErrResp("templateKey, version y locale son requeridos"))
             /\ UNCHANGED versions
        ELSE \E dbOk \in BOOLEAN :
            IF ~dbOk
            THEN /\ Return(p, ErrResp("Error activando version"))
                 /\ UNCHANGED versions
            ELSE /\ versions' = Deactivate(templates, versions, key, locale)
                 /\ Goto(p, "activate", NoArgs,
                         [NoTplArgs EXCEPT !.key = key, !.locale = locale, !.version = version])
    /\ UNCHANGED <<emailVars, templates, tvSeq, credsOK, attempts>>

\* part_001 546-550: the version asked for is activated.
ActivateStep(p) ==
    /\ pc[p] = "activate"
    /\ \E dbOk \in BOOLEAN :
        IF ~dbOk
        THEN /\ Return(p, ErrResp("Error activando version"))
             /\ UNCHANGED versions
        ELSE /\ versions' = Activate(templates, versions, tq[p].key, tq[p].locale,
                                     tq[p].version)
             /\ Return(p, OkResp(MsgNone))
    /\ UNCHANGED <<emailVars, templates, tvSeq, credsOK, smtpVars>>

\* ----------------------------------------------------------- specification

Next ==
    \E p \in Procs :
        \/ SendEmailHandler(p)
        \/ SendFromTemplateHandler(p)
        \/ TemplateFallback(p)
        \/ TemplateInsertQueued(p)
        \/ SendSMTPStart(p)
        \/ SendMailReturns(p)
        \/ TimerFires(p)
        \/ Select(p)
        \/ MarkFailedStep(p)
        \/ MarkSentStep(p)
        \/ CreateDraftHandler(p)
        \/ UpdateDraftHandler(p)
        \/ UpdateDraftWrite(p)

Spec == Init /\ [][Next]_vars

\* The same with the operator's DELETE /emails/{id}, which the lifecycle leaves out.
NextWithDelete == Next \/ \E p \in Procs : DeleteEmailHandler(p)

SpecWithDelete == Init /\ [][NextWithDelete]_vars

\* The request of p, if it got past validation, asks for one of these contents.
CreatesFrom(p, contents) ==
    \/ pc'[p] = "idle"
    \/ \E c \in contents :
            /\ tq'[p].subject = c.subject
            /\ tq'[p].bodyHTML = c.bodyHTML
            /\ tq'[p].bodyText = c.bodyText

\* The template store under concurrent template requests.
TplNext ==
    \E p \in Procs :
        \/ CreateTemplateVersionHandler(p) /\ CreatesFrom(p, {TplTextOnly})
        \/ EnsureTemplateStep(p)
        \/ NextVersionStep(p)
        \/ InsertVersionStep(p) /\ tvSeq' <= MaxConcurrentVersions
        \/ ActivateTemplateVersionHandler(p)
        \/ ActivateStep(p)

\* The SMTP credentials play no part in the template store.
TplInit == Init /\ credsOK = TRUE

TplSpec == TplInit /\ [][TplNext]_vars

\* Activations alone write is_active: no request asks for activateOnCreate.
ActNext ==
    \E p \in Procs :
        \/ CreateTemplateVersionHandler(p)
              /\ CreatesFrom(p, {TplTextOnly}) /\ tq'[p].isActive = FALSE
        \/ EnsureTemplateStep(p)
        \/ NextVersionStep(p)
        \/ InsertVersionStep(p) /\ tvSeq' <= MaxConcurrentVersions
        \/ ActivateTemplateVersionHandler(p)
        \/ ActivateStep(p)

ActSpec == TplInit /\ [][ActNext]_vars

\* Versions of one content created one after the other, up to MaxVersions rows.
NumNext ==
    \/ CreateTemplateVersionHandler("p1")
          /\ CreatesFrom("p1", {TplTextOnly}) /\ tq'["p1"].isActive = FALSE
    \/ EnsureTemplateStep("p1")
    \/ NextVersionStep("p1")
    \/ InsertVersionStep("p1")

NumSpec == TplInit /\ [][NumNext]_vars

\* Two clients create versions at the same time.
RaceNext ==
    \E p \in Procs :
        \/ CreateTemplateVersionHandler(p)
              /\ CreatesFrom(p, {TplTextOnly}) /\ tq'[p].isActive = FALSE
        \/ EnsureTemplateStep(p)
        \/ NextVersionStep(p)
        \/ InsertVersionStep(p) /\ tvSeq' <= MaxRaceVersions

RaceSpec == TplInit /\ [][RaceNext]_vars

\* One client writes template versions while another sends from templates, up to
\* the queued record of the send.
RenderNext ==
    \/ CreateTemplateVersionHandler("p1")
    \/ EnsureTemplateStep("p1")
    \/ NextVersionStep("p1")
    \/ InsertVersionStep("p1") /\ tvSeq' <= MaxConcurrentVersions
    \/ SendFromTemplateHandler("p2")
    \/ TemplateFallback("p2")
    \/ TemplateInsertQueued("p2") /\ nextId' <= MaxRenderEmails + 1

RenderSpec == TplInit /\ [][RenderNext]_vars

\* One client writes versions whose two bodies are the same template while
\* another sends from templates with data that is markup.
EscapeNext ==
    \/ CreateTemplateVersionHandler("p1") /\ CreatesFrom("p1", {TplBoth, TplTextOnly})
    \/ EnsureTemplateStep("p1")
    \/ NextVersionStep("p1")
    \/ InsertVersionStep("p1") /\ tvSeq' <= MaxConcurrentVersions
    \/ SendFromTemplate("p2", ScriptInputs)
    \/ TemplateFallback("p2")
    \/ TemplateInsertQueued("p2") /\ nextId' <= MaxRenderEmails + 1

EscapeSpec == TplInit /\ [][EscapeNext]_vars

\* One client writes versions with a text body alone while another sends, from
\* templates and directly, up to the response.
WireNext ==
    \/ CreateTemplateVersionHandler("p1") /\ CreatesFrom("p1", {TplTextOnly})
    \/ EnsureTemplateStep("p1")
    \/ NextVersionStep("p1")
    \/ InsertVersionStep("p1") /\ tvSeq' <= MaxConcurrentVersions
    \/ SendEmailHandler("p2") /\ nextId' <= MaxRenderEmails + 1
    \/ SendFromTemplateHandler("p2")
    \/ TemplateFallback("p2")
    \/ TemplateInsertQueued("p2") /\ nextId' <= MaxRenderEmails + 1
    \/ SendSMTPStart("p2")
    \/ SendMailReturns("p2")
    \/ TimerFires("p2")
    \/ Select("p2")
    \/ MarkFailedStep("p2")
    \/ MarkSentStep("p2")

WireSpec == TplInit /\ [][WireNext]_vars

\* Direct sends alone.
SendNext ==
    \E p \in Procs :
        \/ SendEmailHandler(p)
        \/ SendSMTPStart(p)
        \/ SendMailReturns(p)
        \/ TimerFires(p)
        \/ Select(p)
        \/ MarkFailedStep(p)
        \/ MarkSentStep(p)

SendSpec == Init /\ [][SendNext]_vars

\* Sends, direct and from the seeded template, with a store that applies every
\* status write.
LiveNext ==
    \E p \in Procs :
        \/ SendEmailHandler(p)
        \/ SendFromTemplateHandler(p)
        \/ TemplateFallback(p)
        \/ TemplateInsertQueued(p)
        \/ SendSMTPStart(p)
        \/ SendMailReturns(p)
        \/ TimerFires(p)
        \/ Select(p)
        \/ MarkFailedStep(p) /\ emails' # emails
        \/ MarkSentStep(p) /\ emails' # emails

\* The timer fires, the handler goroutine keeps running up to its response and
\* the status write is applied; nothing makes smtp.SendMail return.
LiveSpec ==
    /\ Init /\ [][LiveNext]_vars
    /\ \A p \in Procs :
        /\ WF_vars(SendSMTPStart(p))
        /\ WF_vars(TimerFires(p))
        /\ WF_vars(Select(p))
        /\ WF_vars(MarkFailedStep(p) /\ emails' # emails)
        /\ WF_vars(MarkSentStep(p) /\ emails' # emails)

\* The runtime fires an armed timer and runs a goroutine whose select has a
\* ready case; nothing makes smtp.SendMail return.
FairSpec ==
    SendSpec /\ \A p \in Procs : WF_vars(TimerFires(p)) /\ WF_vars(Select(p))

\* ------------------------------------------------------------- properties

\* The body InsertQueued is given: the HTML part when there is one.
BodyPersisted(args) == IF args.bodyHTML = Empty THEN args.bodyText ELSE args.bodyHTML

\* C1: in the direct and the templated send, smtp.SendMail is started only by a
\* handler standing after its InsertQueued, whose row is in the table with
\* status queued; a handler reaches that place only through the step that
\* inserted the row under the id it holds, so a failed insert starts no transport.
C1_RecordBeforeTransport ==
    [][\A p \in Procs :
        /\ (smtp'[p] = "running" /\ smtp[p] # "running") =>
              /\ pc[p] = "sendSMTP"
              /\ rq[p].id \in DOMAIN emails
              /\ emails[rq[p].id].status = "queued"
        /\ (pc'[p] = "sendSMTP" /\ pc[p] # "sendSMTP") =>
              /\ rq'[p].id = nextId
              /\ rq'[p].id \notin DOMAIN emails
              /\ rq'[p].id \in DOMAIN emails'
              /\ emails'[rq'[p].id] =
                    NewRow(rq'[p].to, rq'[p].subject, BodyPersisted(rq'[p]), "queued")
      ]_vars

\* A direct and a templated send both have their transport running, each with
\* its queued row.
C1_Witness ==
    \E p, q \in Procs :
        /\ smtp[p] = "running" /\ pc[p] = "select" /\ rq[p].key = ""
        /\ smtp[q] = "running" /\ pc[q] = "select" /\ rq[q].key = SeedKey
        /\ emails[rq[p].id].status = "queued"
        /\ emails[rq[q].id].status = "queued"

\* C2: when a direct send answers success the row it created is sent with
\* sent_at set, and when it answers a transport failure the row is failed with
\* a non-empty error, whether or not the status write succeeds.
C2_ResponseMatchesRecord ==
    [][\A p \in Procs :
        (pc[p] \in {"markSent", "markFailed"} /\ pc'[p] = "idle") =>
            LET row == emails'[rq[p].id]
            IN  IF resp'.success
                THEN row.status = "sent" /\ row.sent_at # NULL
                ELSE row.status = "failed" /\ row.error \notin {NULL, ""}
      ]_vars

\* The active versions of one (template, locale) pair.
ActiveOfPair(vs, tplID, locale) ==
    {r \in vs : r.template_id = tplID /\ r.locale = locale /\ r.is_active}

AtMostOneActive(vs) ==
    \A r \in vs : Cardinality(ActiveOfPair(vs, r.template_id, r.locale)) <= 1

\* C3: in every reachable state at most one version is active for each
\* (template, locale) pair.
C3_AtMostOneActivePerPair == AtMostOneActive(versions)

\* C4: when activations of one (key, locale) pair run concurrently, once none of
\* them is between its two writes no pair has two active versions.
C4_ConcurrentActivations ==
    (\A p \in Procs : pc[p] # "activate") => AtMostOneActive(versions)

\* C5: when activateVersion(key, v, locale) answers success, getActiveVersion
\* (key, locale) returns version v of that locale and nothing else of the pair
\* is active.
C5_ActivatedIsReturned ==
    [][\A p \in Procs :
        (pc[p] = "activate" /\ pc'[p] = "idle" /\ resp'.success) =>
            LET got == GetActiveTemplateVersion(templates', versions', tq[p].key, tq[p].locale)
            IN  /\ got # {}
                /\ \A r \in got : r.version = tq[p].version /\ r.locale = tq[p].locale
                /\ \A r \in ActiveOfPair(versions', TemplateID(templates', tq[p].key),
                                         tq[p].locale) : r.version = tq[p].version
      ]_vars

\* C6: in every reachable state every row has sent_at set exactly when its
\* status is sent, and error set exactly when its status is failed.
C6_SentAtAndError ==
    \A i \in DOMAIN emails :
        /\ emails[i].sent_at # NULL <=> emails[i].status = "sent"
        /\ emails[i].error # NULL <=> emails[i].status = "failed"

\* One row was marked sent and another failed.
C6_Witness ==
    \E i, j \in DOMAIN emails :
        /\ emails[i].status = "sent" /\ emails[i].sent_at = NowTs
        /\ emails[j].status = "failed" /\ emails[j].error = ErrTimeout

StatusEdges == {<<"draft", "queued">>, <<"queued", "sent">>, <<"queued", "failed">>}

\* C7: the status of a row changes only from draft to queued, from queued to
\* sent and from queued to failed (an edit leaves a draft a draft); a row that
\* is sent or failed keeps its status.
C7_StatusEdgesOnly ==
    [][\A i \in DOMAIN emails \cap DOMAIN emails' :
        emails'[i].status # emails[i].status =>
            <<emails[i].status, emails'[i].status>> \in StatusEdges
      ]_vars

\* A row is sent while another request is about to write failed on its own row.
C7_Witness ==
    \E i \in DOMAIN emails, p \in Procs :
        emails[i].status = "sent" /\ pc[p] = "markFailed" /\ rq[p].id # i

\* C8: the write of updateDraft answers true and replaces recipient, subject
\* and body exactly when the row of that id exists with status draft at the
\* write; otherwise it answers false, with no store error, and no row changes.
\* A write the store fails changes no row either.
C8_UpdateDraft ==
    [][\A p \in Procs :
        (pc[p] = "updateDraft" /\ pc'[p] = "idle") =>
            LET id == rq[p].target
                isDraft == id \in DOMAIN emails /\ emails[id].status = "draft"
            IN  IF resp'.error = ErrUpdateDraft
                THEN emails' = emails
                ELSE IF isDraft
                THEN /\ resp'.success /\ resp'.message = MsgUpdated
                     /\ emails' = [emails EXCEPT ![id] =
                            [@ EXCEPT !.to_addr = rq[p].to, !.subject = rq[p].subject,
                                      !.body = rq[p].bodyHTML]]
                ELSE /\ ~resp'.success /\ resp'.error = ErrNotDraft
                     /\ emails' = emails
      ]_vars

\* An update replaced the content of a draft while the other row, not a draft,
\* stayed as it was.
C8_Witness ==
    /\ resp.success /\ resp.message = MsgUpdated
    /\ \E i, j \in DOMAIN emails :
        /\ emails[i].status = "draft" /\ emails[i].to_addr = Addr2
        /\ emails[j].status # "draft"

\* C9: a row whose status is not draft keeps its recipient, subject and body
\* in every step of every interleaving, and an update aimed at it answers a
\* failure to its caller.
C9_ContentFrozen ==
    [][/\ \A i \in DOMAIN emails \cap DOMAIN emails' :
            emails[i].status # "draft" =>
                /\ emails'[i].to_addr = emails[i].to_addr
                /\ emails'[i].subject = emails[i].subject
                /\ emails'[i].body = emails[i].body
       /\ \A p \in Procs :
            (/\ pc[p] = "updateDraft" /\ pc'[p] = "idle"
             /\ rq[p].target \in DOMAIN emails
             /\ emails[rq[p].target].status # "draft") =>
                /\ ~resp'.success
                /\ resp'.error \in {ErrNotDraft, ErrUpdateDraft}
      ]_vars

\* An update was answered as rejected when every row it could aim at had left
\* draft or never was one.
C9_Witness ==
    /\ resp.error = ErrNotDraft
    /\ DOMAIN emails = 1..MaxEmails
    /\ \A i \in DOMAIN emails : emails[i].status \in {"queued", "sent", "failed"}

\* C10: a handler waiting in the select of sendSMTP leaves it, and when it
\* leaves with nothing in the channel it leaves with the timeout error; it
\* leaves only when the channel holds a result or the timer has fired.
C10_SendStepReturns ==
    /\ \A p \in Procs : (pc[p] = "select") ~> (pc[p] # "select")
    /\ [][\A p \in Procs :
            (pc[p] = "select" /\ pc'[p] # "select") =>
                /\ Len(chanC[p]) > 0 \/ timer[p] = "fired"
                /\ Len(chanC[p]) = 0 => sendErr'[p] = ErrTimeout /\ pc'[p] = "markFailed"
         ]_vars

\* The timer fired on a transport that has not returned, and the handler went on
\* with the timeout error.
C10_Witness ==
    \E p \in Procs :
        /\ pc[p] = "markFailed" /\ sendErr[p] = ErrTimeout
        /\ smtp[p] = "running" /\ chanC[p] = <<>>

\* C11 as the code keeps it: when sendSMTP returns the timeout the handler goes
\* on to MarkFailed and answers a failure; if that write is applied the row goes
\* from queued to failed with the timeout reason, which no transport failure
\* has; if the store fails the write the row stays as it was.
C11_TimeoutFails ==
    [][\A p \in Procs :
        /\ (pc[p] = "select" /\ pc'[p] # "select" /\ sendErr'[p] = ErrTimeout) =>
              pc'[p] = "markFailed"
        /\ (pc[p] = "markFailed" /\ sendErr[p] = ErrTimeout /\ pc'[p] = "idle") =>
              /\ ~resp'.success /\ resp'.proc = p /\ resp'.error = ErrSending
              /\ ErrTimeout \notin {ErrSmtp, ErrCreds, ErrNil}
              /\ \/ emails' = emails
                 \/ /\ emails[rq[p].id].status = "queued"
                    /\ emails' = [emails EXCEPT ![rq[p].id] =
                            [@ EXCEPT !.status = "failed", !.error = ErrTimeout]]
      ]_vars

\* C11: when the timer ends the wait, the row of the request goes from queued
\* to failed with the timeout reason and the caller gets a failure.
C11_TimeoutAlwaysRecorded ==
    [][\A p \in Procs :
        (pc[p] = "markFailed" /\ sendErr[p] = ErrTimeout /\ pc'[p] = "idle") =>
            /\ ~resp'.success
            /\ emails[rq[p].id].status = "queued"
            /\ emails'[rq[p].id].status = "failed"
            /\ emails'[rq[p].id].error = ErrTimeout
      ]_vars

\* A request timed out while its transport was still running, its row is failed
\* with the timeout reason and its caller was answered the failure.
C11_Witness ==
    \E p \in Procs, i \in DOMAIN emails :
        /\ resp.proc = p /\ resp.error = ErrSending
        /\ smtp[p] = "running"
        /\ emails[i].status = "failed" /\ emails[i].error = ErrTimeout
        /\ attempts[i] = 1

ErrFieldsRequired == "Todos los campos (to, subject, body) son requeridos"
ErrBadAddress == "Formato de email destinatario invalido"

\* C12: a direct send goes on to InsertQueued only with recipient, subject and
\* body non-blank and a recipient longer than 3 characters holding "@" and ".";
\* a request answered with a validation error wrote no row, took no id and
\* started no transport.
C12_ValidationBeforeWrite ==
    [][\A p \in Procs :
        /\ (pc[p] = "idle" /\ pc'[p] = "sendSMTP") =>
              /\ ~IsBlank(rq'[p].to) /\ ~IsBlank(rq'[p].subject) /\ ~IsBlank(rq'[p].bodyHTML)
              /\ Len(rq'[p].to) > 3
              /\ \E i, j \in 1..Len(rq'[p].to) : rq'[p].to[i] = "@" /\ rq'[p].to[j] = "."
        /\ (pc[p] = "idle" /\ resp'.proc = p
                /\ resp'.error \in {ErrFieldsRequired, ErrBadAddress}) =>
              /\ pc'[p] = "idle"
              /\ emails' = emails /\ nextId' = nextId
              /\ attempts' = attempts /\ smtp'[p] = "idle"
      ]_vars

\* A recipient without "@" was refused after an earlier send had been stored.
C12_Witness ==
    /\ resp.error = ErrBadAddress
    /\ \E i \in DOMAIN emails : emails[i].status = "sent"
    /\ nextId = 2

\* C15: when the status write after a transport attempt fails, the caller is
\* told: a failed MarkSent is not answered as success, and a failed MarkFailed
\* is answered with more than the transport error.
C15_WriteErrorSurfaced ==
    [][\A p \in Procs :
        (pc[p] \in {"markSent", "markFailed"} /\ pc'[p] = "idle" /\ emails' = emails) =>
            /\ ~resp'.success
            /\ resp'.error \notin {"", ErrSending}
      ]_vars

\* C16: an activation whose (key, version, locale) matches no version answers
\* a failure.
C16_ActivateNotFound ==
    [][\A p \in Procs :
        (/\ pc[p] = "activate" /\ pc'[p] = "idle"
         /\ ActivateRows(templates, versions, tq[p].key, tq[p].locale, tq[p].version) = {}) =>
            ~resp'.success
      ]_vars

\* C17: no step leaves a (template, locale) pair that had an active version
\* without one: the deactivation never shows without the activation.
C17_ActivationAtomic ==
    [][\A r \in versions :
        ActiveOfPair(versions, r.template_id, r.locale) # {} =>
            ActiveOfPair(versions', r.template_id, r.locale) # {}
      ]_vars

\* C18: when a version is created with activateOnCreate, after the success it
\* is the one active version of its (template, locale) pair.
C18_ActivateOnCreate ==
    [][\A p \in Procs :
        (pc[p] = "insertVersion" /\ pc'[p] = "idle" /\ resp'.success /\ tq[p].isActive) =>
            /\ ActiveOfPair(versions', tq[p].tplID, tq[p].locale) # {}
            /\ \A r \in ActiveOfPair(versions', tq[p].tplID, tq[p].locale) :
                    r.version = tq[p].nextVer
      ]_vars

\* The version numbers of one (template, locale) pair.
NumbersOfPair(vs, tplID, locale) ==
    {r.version : r \in {x \in vs : x.template_id = tplID /\ x.locale = locale}}

\* C19: the version numbers of every (template, locale) pair are 1..n, n the
\* number of its versions.
C19_DensePerPair ==
    \A r \in versions :
        NumbersOfPair(versions, r.template_id, r.locale) =
            1..Cardinality(NumbersOfPair(versions, r.template_id, r.locale))

\* The error texts of a templated send whose version is not resolved or not rendered.
ErrsTemplateUnavailable ==
    {ErrNoTemplate, "Error renderizando subject", "Error renderizando HTML",
     "Error renderizando texto"}

\* The parts of tv that are rendered all parse.
Renderable(tv) ==
    /\ Parses(tv.subject)
    /\ tv.body_html.Valid => Parses(tv.body_html.String)
    /\ tv.body_text.Valid => Parses(tv.body_text.String)

\* C13: a templated send answered that no active version was found, or that the
\* subject or a body did not render, ends there: no email record is inserted and
\* no transport attempt is made; and a templated send goes on to its insert only
\* with an active version of its key whose parts all render.
C13_UnavailableStopsSend ==
    [][\A p \in Procs :
        /\ (resp'.proc = p /\ resp'.error \in ErrsTemplateUnavailable) =>
              /\ pc[p] \in {"idle", "tplQ2"} /\ pc'[p] = "idle"
              /\ emails' = emails /\ nextId' = nextId
              /\ attempts' = attempts /\ smtp'[p] = "idle"
        /\ (pc[p] # "tplInsert" /\ pc'[p] = "tplInsert") =>
              \E tv \in KeyRows(templates, versions, rq'[p].key) :
                    tv.is_active /\ Renderable(tv)
      ]_vars

\* A send was refused for a text body that does not parse, of an active version
\* written by the other client; nothing was stored.
C13_Witness ==
    /\ resp.proc = "p2" /\ resp.error = "Error renderizando texto"
    /\ \E tv \in versions : tv.is_active /\ tv.body_text = TplBadText.bodyText
    /\ emails = <<>> /\ nextId = 1

ErrNoBody == "La plantilla activa no tiene cuerpo (HTML/texto)"

\* The rendering of a body column: nothing when the column is NULL.
RenderedHTML(tv, data) ==
    IF tv.body_html.Valid THEN renderHTML(tv.body_html.String, data).out ELSE Empty

RenderedText(tv, data) ==
    IF tv.body_text.Valid THEN renderText(tv.body_text.String, data).out ELSE Empty

\* The versions the request of p may have read: those of its key once the key
\* is in hand.
RowsOf(p) ==
    IF pc[p] = "tplQ2" THEN KeyRows(templates, versions, rq[p].key) ELSE versions

\* The data of the request p has in hand.
DataOf(p) == IF pc[p] = "tplQ2" THEN {rq[p].data} ELSE DataInputs

\* C14, as the code has it: a templated send goes on to its insert with the
\* renderings of an active version of its key, the record inserted has the
\* rendered HTML as its body when that rendering is not empty and the rendered
\* text otherwise, and when both renderings are empty the send is answered with
\* the no-body error and no record is created.
C14_PersistedBody ==
    [][\A p \in Procs :
        /\ (pc[p] # "tplInsert" /\ pc'[p] = "tplInsert") =>
              /\ \E tv \in KeyRows(templates, versions, rq'[p].key), data \in DataOf(p) :
                    /\ tv.is_active
                    /\ rq'[p].subject = renderText(tv.subject, data).out
                    /\ rq'[p].bodyHTML = RenderedHTML(tv, data)
                    /\ rq'[p].bodyText = RenderedText(tv, data)
              /\ BodyPersisted(rq'[p]) # Empty
        /\ (pc[p] = "tplInsert" /\ pc'[p] = "sendSMTP") =>
              /\ DOMAIN emails' = DOMAIN emails \cup {nextId}
              /\ emails'[nextId].status = "queued"
              /\ emails'[nextId].subject = rq[p].subject
              /\ emails'[nextId].body =
                    IF rq[p].bodyHTML # Empty THEN rq[p].bodyHTML ELSE rq[p].bodyText
        /\ (resp'.proc = p /\ resp'.error = ErrNoBody) =>
              /\ pc'[p] = "idle"
              /\ emails' = emails /\ nextId' = nextId
              /\ \E tv \in RowsOf(p), data \in DataOf(p) :
                    /\ tv.is_active
                    /\ RenderedHTML(tv, data) = Empty /\ RenderedText(tv, data) = Empty
      ]_vars

\* C14, as stated: the body chosen is the rendered HTML whenever the active
\* version has an HTML body.
C14_HTMLWheneverVersionHasIt ==
    [][\A p \in Procs :
        (pc[p] # "tplInsert" /\ pc'[p] = "tplInsert") =>
            \E tv \in KeyRows(templates, versions, rq'[p].key), data \in DataOf(p) :
                /\ tv.is_active
                /\ BodyPersisted(rq'[p]) =
                      IF tv.body_html.Valid THEN RenderedHTML(tv, data)
                      ELSE RenderedText(tv, data)
      ]_vars

\* A record was stored with the rendered text of a version whose HTML body
\* rendered to nothing.
C14_Witness ==
    /\ pc["p2"] = "sendSMTP"
    /\ rq["p2"].bodyHTML = Empty
    /\ \E tv \in versions : tv.is_active /\ tv.body_html = TplEmptyHTML.bodyHTML
    /\ emails[rq["p2"].id].body = <<"t", " ", "A", "n", "a">>

\* The version numbers of one template, whatever the locale.
NumbersOfTemplate(vs, tplID) == {r.version : r \in {x \in vs : x.template_id = tplID}}

\* max(existing version numbers of the template) + 1, or 1 when it has none.
MaxPlusOne(nums) ==
    IF nums = {} THEN 1 ELSE (CHOOSE m \in nums : \A n \in nums : n <= m) + 1

\* C20: CreateTemplateVersion reads as the number of the new version the
\* greatest version number of the template plus one, or 1 when the template has
\* no version, and inserts the new version with that number as the newest row;
\* so, with one creation after the other, the versions of every template are
\* numbered 1, 2, 3, ... in creation order.
C20_NextVersionNumber ==
    /\ [][\A p \in Procs :
            /\ (pc[p] = "nextVer" /\ pc'[p] = "insertVersion") =>
                  tq'[p].nextVer = MaxPlusOne(NumbersOfTemplate(versions, tq[p].tplID))
            /\ (pc[p] = "insertVersion" /\ resp'.proc = p /\ resp'.success) =>
                  \E r \in versions' \ versions :
                      /\ versions' = versions \cup {r}
                      /\ r.template_id = tq[p].tplID /\ r.locale = tq[p].locale
                      /\ r.version = tq[p].nextVer
                      /\ \A o \in versions : o.created_at < r.created_at
        ]_vars
    /\ [](\A r \in versions :
            /\ NumbersOfTemplate(versions, r.template_id) =
                  1..Cardinality(NumbersOfTemplate(versions, r.template_id))
            /\ \A o \in versions :
                  (o.template_id = r.template_id /\ o.created_at < r.created_at) =>
                      o.version < r.version)

\* Three versions were added to a template that had none, under one locale:
\* they are numbered 1, 2, 3 in creation order.
C20_Witness ==
    /\ OtherKey \in DOMAIN templates
    /\ \E a, b, c \in versions :
        /\ KeyRows(templates, versions, OtherKey) = {a, b, c}
        /\ a.locale = b.locale /\ b.locale = c.locale
        /\ a.version = 1 /\ b.version = 2 /\ c.version = 3
        /\ a.created_at < b.created_at /\ b.created_at < c.created_at

\* The identity of a version.
Triple(r) == <<r.template_id, r.version, r.locale>>

\* The version p is about to insert has the identity of a row of the table.
TripleTaken(p) ==
    \E r \in versions : Triple(r) = <<tq[p].tplID, tq[p].nextVer, tq[p].locale>>

\* C21: no two template versions have the same (template, version number,
\* locale); a creation whose triple was taken since it read the maximum, by a
\* concurrent creation that read the same maximum, is answered with an error
\* and writes nothing.
C21_UniqueTriple ==
    /\ [](\A a, b \in versions : Triple(a) = Triple(b) => a = b)
    /\ [][\A p \in Procs :
            (pc[p] = "insertVersion" /\ pc'[p] = "idle" /\ TripleTaken(p)) =>
                /\ resp'.proc = p /\ ~resp'.success
                /\ versions' = versions
        ]_vars

\* Both clients read the same maximum for the same template and locale; one has
\* inserted its version, the other stands before its INSERT with the same triple.
C21_Witness ==
    /\ pc["p2"] = "insertVersion" /\ pc["p1"] = "idle"
    /\ resp.proc = "p1" /\ resp.success
    /\ TripleTaken("p2")
    /\ tq["p2"].nextVer = 2

\* A version without its active flag.
Frozen(r) == [r EXCEPT !.is_active = FALSE]

\* C22: every step keeps every version with its template, version number,
\* locale, subject, HTML body, text body and creation rank; a step changes at
\* most active flags and adds at most one version.
C22_ContentImmutable ==
    [][/\ {Frozen(r) : r \in versions} \subseteq {Frozen(r) : r \in versions'}
       /\ Cardinality(versions') \in {Cardinality(versions), Cardinality(versions) + 1}
      ]_vars

\* The seeded version was deactivated by the activation of a later version of
\* its key and locale, and still has the content it was created with.
C22_Witness ==
    \E r, n \in versions :
        /\ r.created_at = 1 /\ ~r.is_active
        /\ r.version = 1 /\ r.locale = DefaultLocale /\ r.subject = SeedSubject
        /\ r.body_html = NullString(TRUE, SeedHTML) /\ r.body_text = NullString(TRUE, SeedText)
        /\ n.created_at = 2 /\ n.template_id = r.template_id /\ n.locale = r.locale
        /\ n.is_active
        /\ resp.success

\* The identities of the templates.
TemplateIDs(tpls) == {tpls[k] : k \in DOMAIN tpls}

\* C23: EnsureTemplate gives the identity of the key: for a key that has a
\* template, the one it had, with no error and no new template, also when the
\* template was created by a concurrent creation after this one looked for it;
\* for a new key, a new identity. No step changes the identity of a key, and no
\* two keys have the same identity.
C23_EnsureTemplateIdempotent ==
    /\ [][/\ \A k \in DOMAIN templates :
                k \in DOMAIN templates' /\ templates'[k] = templates[k]
          /\ \A p \in Procs :
                (pc[p] = "ensureTemplate" /\ pc'[p] = "nextVer") =>
                    /\ tq'[p].tplID = templates'[tq[p].key]
                    /\ IF tq[p].key \in DOMAIN templates
                       THEN templates' = templates
                       ELSE /\ DOMAIN templates' = DOMAIN templates \cup {tq[p].key}
                            /\ templates'[tq[p].key] \notin TemplateIDs(templates)
        ]_vars
    /\ [](Cardinality(TemplateIDs(templates)) = Cardinality(DOMAIN templates))

\* Two creations for a key with no template looked for it and found none; one
\* has created the template, the other stands before its EnsureTemplate of the
\* key that now has one.
C23_Witness ==
    /\ pc["p1"] = "nextVer" /\ pc["p2"] = "ensureTemplate"
    /\ tq["p1"].key = OtherKey /\ tq["p2"].key = OtherKey
    /\ OtherKey \in DOMAIN templates
    /\ templates[OtherKey] = tq["p1"].tplID
    /\ Cardinality(DOMAIN templates) = 2

\* The active versions of a key.
ActiveOfKey(key) ==
    {r \in versions :
        key \in DOMAIN templates /\ r.template_id = templates[key] /\ r.is_active}

\* The handler holds the renderings of tv.
RenderingsOf(tv, args, data) ==
    /\ args.subject = renderText(tv.subject, data).out
    /\ args.bodyHTML = RenderedHTML(tv, data)
    /\ args.bodyText = RenderedText(tv, data)

\* C24: GetActiveTemplateVersion gives an active version of the key under the
\* locale asked for (es-GT when none is asked for) when there is one; it goes
\* to its second query only when there is none, and that query gives the active
\* version of the key created last, whatever its locale; with no active version
\* of the key the request is answered that the template was not found.
C24_GetActiveVersion ==
    [][\A p \in Procs :
        /\ (pc[p] = "idle" /\ pc'[p] = "tplQ2") =>
              \A r \in ActiveOfKey(rq'[p].key) :
                    r.locale # (IF rq'[p].locale = "" THEN DefaultLocale ELSE rq'[p].locale)
        /\ (pc[p] = "idle" /\ pc'[p] = "tplInsert") =>
              \E tv \in ActiveOfKey(rq'[p].key), data \in DataInputs :
                    /\ tv.locale = (IF rq'[p].locale = "" THEN DefaultLocale
                                    ELSE rq'[p].locale)
                    /\ RenderingsOf(tv, rq'[p], data)
        /\ (pc[p] = "tplQ2" /\ pc'[p] = "tplInsert") =>
              \E tv \in ActiveOfKey(rq[p].key) :
                    /\ \A o \in ActiveOfKey(rq[p].key) : o.created_at <= tv.created_at
                    /\ RenderingsOf(tv, rq'[p], rq[p].data)
        /\ (pc[p] = "tplQ2" /\ pc'[p] = "idle" /\ ActiveOfKey(rq[p].key) = {}) =>
              resp'.proc = p /\ resp'.error = ErrNoTemplate
      ]_vars

\* The key has two active versions under es-GT and none under en-US; a send
\* that asked for en-US holds the renderings of the one created last.
C24_Witness ==
    /\ pc["p2"] = "tplInsert"
    /\ rq["p2"].key = SeedKey /\ rq["p2"].locale = OtherLocale
    /\ Cardinality(ActiveOfKey(SeedKey)) = 2
    /\ \A r \in ActiveOfKey(SeedKey) : r.locale = DefaultLocale
    /\ rq["p2"].subject = renderText(TplTextOnly.subject, DataAna).out

\* Rows i and j have the same recipient, subject and body.
SameContent(tbl, i, j) ==
    /\ tbl[i].to_addr = tbl[j].to_addr
    /\ tbl[i].subject = tbl[j].subject
    /\ tbl[i].body = tbl[j].body

\* C25: a direct send that is accepted promotes the draft of the content it
\* sends: the record that was a draft is not a draft any more, so that an
\* update of it is refused from then on.
C25_SendPromotesDraft ==
    [][\A p \in Procs :
        (pc[p] = "idle" /\ pc'[p] = "sendSMTP" /\ rq'[p].key = "") =>
            \A i \in DOMAIN emails :
                (emails[i].status = "draft" /\ SameContent(emails', i, rq'[p].id)) =>
                    emails'[i].status # "draft"
      ]_vars

\* C26: for every record the transport is started at most once, by the request
\* that inserted it; after the select the request goes to its status write and
\* from there to its response, never back to the transport; a delivery that
\* failed or timed out is answered as a failure and its record, when the write
\* is applied, is failed.
C26_NoRetry ==
    /\ [](\A i \in DOMAIN attempts : attempts[i] <= 1)
    /\ [][\A i \in DOMAIN attempts :
            attempts'[i] # attempts[i] =>
                \E p \in Procs : pc[p] = "sendSMTP" /\ pc'[p] = "select" /\ rq[p].id = i
        ]_vars
    /\ [][\A p \in Procs :
            /\ pc[p] = "select" => pc'[p] \in {"select", "markSent", "markFailed"}
            /\ pc[p] = "markSent" => pc'[p] \in {"markSent", "idle"}
            /\ pc[p] = "markFailed" => pc'[p] \in {"markFailed", "idle"}
            /\ (pc[p] = "markFailed" /\ pc'[p] = "idle") =>
                    /\ resp'.proc = p /\ ~resp'.success /\ resp'.error = ErrSending
                    /\ attempts' = attempts
                    /\ emails' # emails => emails'[rq[p].id].status = "failed"
        ]_vars

\* A delivery the transport refused was recorded as failed and answered as a
\* failure after one attempt, and the request is over.
C26_Witness ==
    /\ resp.proc = "p1" /\ resp.error = ErrSending /\ pc["p1"] = "idle"
    /\ \E i \in DOMAIN emails :
        /\ emails[i].status = "failed" /\ emails[i].error = ErrSmtp
        /\ attempts[i] = 1

\* sub occurs in s.
HasSubstring(s, sub) ==
    \E i \in 1..(Len(s) - Len(sub) + 1) : SubSeq(s, i, i + Len(sub) - 1) = sub

\* The template prints a field whose value in data contains sub.
PrintsValueWith(tpl, data, sub) ==
    \E i \in 1..Len(tpl) :
        tpl[i].k = "field" /\ tpl[i].f \in DOMAIN data /\ HasSubstring(data[tpl[i].f], sub)

\* C27: what a templated send holds after rendering is what renderText and
\* renderHTML give for the version and the data, the same at every rendering;
\* the rendered HTML has no "<script>" (here "<s>"), whatever the data, and the
\* rendered text of a template that prints a value with "<script>" has it.
C27_HTMLEscaped ==
    [][\A p \in Procs :
        (pc[p] # "tplInsert" /\ pc'[p] = "tplInsert") =>
            /\ ~HasSubstring(rq'[p].bodyHTML, ScriptTag)
            /\ \E tv \in ActiveOfKey(rq'[p].key), data \in ScriptInputs :
                /\ RenderingsOf(tv, rq'[p], data)
                /\ (tv.body_text.Valid
                        /\ PrintsValueWith(tv.body_text.String, data, ScriptTag)) =>
                      HasSubstring(rq'[p].bodyText, ScriptTag)
      ]_vars

\* A send with the value "<s>" from a version whose two bodies are the same
\* template: the text has the value as it is, the HTML has it escaped.
C27_Witness ==
    /\ pc["p2"] = "tplInsert"
    /\ \E tv \in ActiveOfKey(rq["p2"].key) :
        /\ tv.body_html = TplBoth.bodyHTML /\ tv.body_text = TplBoth.bodyText
        /\ RenderingsOf(tv, rq["p2"], DataScript)
    /\ rq["p2"].bodyText = <<"v", " ", "<", "s", ">">>
    /\ rq["p2"].bodyHTML = <<"v", " ", "&", "l", "t", ";", "s", "&", "g", "t", ";">>

\* C28: the message sendSMTP hands to the transport is multipart/alternative
\* with two parts, text/plain with the text body and then text/html with the
\* HTML body, when both bodies are non-empty; with one body it has one part,
\* text/html with the HTML body or text/plain with the text body.
C28_MessageParts ==
    \A p \in Procs :
        pc[p] = "select" =>
            LET m == rq[p].msg
                t == rq[p].bodyText
                h == rq[p].bodyHTML
            IN  /\ m # NoMsg
                /\ (t # Empty /\ h # Empty) =>
                      /\ m.contentType = "multipart/alternative"
                      /\ m.parts = <<[ct |-> "text/plain", body |-> t],
                                     [ct |-> "text/html", body |-> h]>>
                /\ (t = Empty /\ h # Empty) =>
                      /\ m.contentType = "text/html"
                      /\ m.parts = <<[ct |-> "text/html", body |-> h]>>
                /\ (t # Empty /\ h = Empty) =>
                      /\ m.contentType = "text/plain"
                      /\ m.parts = <<[ct |-> "text/plain", body |-> t]>>

\* A send from the seeded version, which has both bodies, waits in the select
\* with its two-part message.
C28_Witness ==
    /\ pc["p2"] = "select" /\ smtp["p2"] = "running"
    /\ rq["p2"].key = SeedKey
    /\ rq["p2"].bodyText # Empty /\ rq["p2"].bodyHTML # Empty
    /\ Len(rq["p2"].msg.parts) = 2
    /\ rq["p2"].msg.parts[1].ct = "text/plain"
    /\ rq["p2"].msg.parts[1].body = rq["p2"].bodyText

\* The steps on which row i becomes sent.
BecomesSent(i) ==
    /\ i \in DOMAIN emails /\ i \in DOMAIN emails'
    /\ emails[i].status # "sent" /\ emails'[i].status = "sent"

Abandoned(p) == smtp[p] = "running" /\ pc[p] \in {"markFailed", "idle"}

\* C30: when the transport call of a timed-out request returns, with success or
\* with a failure, no email record changes, no response is written and the
\* handler keeps the timeout error it holds; its result stays in the channel,
\* which only the select reads; the handler answers the failure afterwards as
\* it would have; a failed record stays failed.
C30_LateResultDiscarded ==
    /\ [][\A p \in Procs :
            (Abandoned(p) /\ smtp'[p] = "returned") =>
                /\ emails' = emails /\ nextId' = nextId /\ attempts' = attempts
                /\ resp' = NoResp
                /\ pc' = pc /\ sendErr' = sendErr /\ rq' = rq
                /\ chanC[p] = <<>> /\ chanC'[p] \in {<<ErrNil>>, <<ErrSmtp>>}
        ]_vars
    /\ [][\A p \in Procs :
            /\ (chanC[p] # <<>> /\ chanC'[p] # chanC[p]) =>
                  pc[p] \in {"select", "idle"}
            /\ (pc[p] = "markFailed" /\ sendErr[p] = ErrTimeout /\ pc'[p] # "markFailed") =>
                  /\ pc'[p] = "idle" /\ resp'.proc = p /\ ~resp'.success
                  /\ emails' \in {emails, MarkFailed(emails, rq[p].id, ErrTimeout)}
        ]_vars
    /\ [][\A i \in DOMAIN emails :
            emails[i].status = "failed" =>
                i \in DOMAIN emails' /\ emails'[i] = emails[i]
        ]_vars

\* The transport call of a timed-out request succeeded after the handler had
\* answered: its result lies unread in the channel and the record is failed
\* with the timeout reason.
C30_Witness ==
    /\ pc["p1"] = "idle" /\ smtp["p1"] = "returned" /\ chanC["p1"] = <<ErrNil>>
    /\ resp = NoResp
    /\ 1 \in DOMAIN emails /\ emails[1].status = "failed" /\ emails[1].error = ErrTimeout
    /\ attempts[1] = 1

\* C31: with a timer that fires, a handler that keeps running and status
\* writes that are applied, every record inserted as queued becomes sent or
\* failed.
C31_QueuedReachesTerminal ==
    \A i \in 1..MaxEmails :
        (i \in DOMAIN emails /\ emails[i].status = "queued")
            ~> (i \in DOMAIN emails /\ emails[i].status \in {"sent", "failed"})

\* Both records have left queued, one by a timeout with the transport still
\* running and one by a success.
C31_Witness ==
    /\ DOMAIN emails = 1..MaxEmails
    /\ \E i, j \in DOMAIN emails :
        /\ emails[i].status = "failed" /\ emails[i].error = ErrTimeout
        /\ emails[j].status = "sent"
    /\ \E p \in Procs : smtp[p] = "running" /\ pc[p] = "idle"

\* The handler of p has inserted its queued record and has not answered yet.
InSend(p) == pc[p] \in {"sendSMTP", "select", "markSent", "markFailed"}

\* C32: a request holds, from its InsertQueued to its response, the id of the
\* record it inserted, which no request running beside it holds; its status
\* write leaves every other record as it was and adds or removes none.
C32_StatusWriteFrame ==
    /\ [](\A p, q \in Procs :
            (InSend(p) /\ InSend(q) /\ p # q) =>
                /\ rq[p].id # rq[q].id
                /\ rq[p].id \in DOMAIN emails)
    /\ [][\A p \in Procs :
            /\ (~InSend(p) /\ InSend(p)') =>
                  /\ rq'[p].id = nextId /\ nextId \notin DOMAIN emails
                  /\ emails'[nextId].status = "queued"
                  /\ \A i \in DOMAIN emails : emails'[i] = emails[i]
            /\ (InSend(p) /\ InSend(p)') => rq'[p].id = rq[p].id
            /\ (pc[p] \in {"markSent", "markFailed"} /\ pc'[p] = "idle") =>
                  /\ DOMAIN emails' = DOMAIN emails
                  /\ \A i \in DOMAIN emails : i # rq[p].id => emails'[i] = emails[i]
        ]_vars

\* Two requests ran side by side: the first has just marked its record sent and
\* the record of the second, which still waits in its select, is queued as before.
C32_Witness ==
    /\ resp.proc = "p1" /\ resp.success /\ pc["p1"] = "idle"
    /\ pc["p2"] = "select" /\ rq["p2"].id = 2
    /\ DOMAIN emails = 1..2
    /\ emails[1].status = "sent" /\ emails[1].sent_at # "NULL"
    /\ emails[2].status = "queued" /\ emails[2].error = "NULL" /\ emails[2].sent_at = "NULL"

\* The rows of another template than key's, or of another locale.
OutsideOf(key, locale) ==
    {r \in versions : key \notin DOMAIN templates \/ r.template_id # templates[key]
                        \/ r.locale # locale}

\* A write of the activation of (key, locale) keeps every row outside of it and
\* brings no new row outside of it.
ActivationFrame(key, locale) ==
    /\ OutsideOf(key, locale) \subseteq versions'
    /\ \A r \in versions' \ versions :
            /\ key \in DOMAIN templates /\ r.template_id = templates[key] /\ r.locale = locale
            /\ \E o \in versions : [o EXCEPT !.is_active = r.is_active] = r

\* C33: each of the two writes of ActivateTemplateVersion(key, version, locale)
\* leaves the rows of other templates and of other locales of the same template
\* as they were, their active flag included.
C33_ActivateFrame ==
    [][\A p \in Procs :
        /\ (pc[p] = "idle" /\ pc'[p] = "activate") =>
              ActivationFrame(tq'[p].key, tq'[p].locale)
        /\ (pc[p] = "activate" /\ pc'[p] = "idle") =>
              ActivationFrame(tq[p].key, tq[p].locale)
      ]_vars

\* A version of another locale of the seeded template was activated and the
\* seeded version, of the default locale, is active as before.
C33_Witness ==
    /\ resp.success /\ resp.proc \in Procs
    /\ \E r, s \in versions :
        /\ r.template_id = s.template_id /\ r.locale = DefaultLocale /\ s.locale = OtherLocale
        /\ r.is_active /\ s.is_active

\* C34: while smtp.SendMail of a request runs, its goroutine can hand the
\* result to the channel and end whenever the call returns, wherever the
\* handler stands, also after the select has taken the timeout and the handler
\* has answered.
C34_HandoverNeverBlocks ==
    \A p \in Procs : smtp[p] = "running" => ENABLED SendMailReturns(p)

\* The select of a request took the timeout, the handler answered, and the
\* transport call then failed: its goroutine has ended and its error lies in
\* the channel with no receiver left.
C34_Witness ==
    \E p \in Procs :
        /\ pc[p] = "idle" /\ smtp[p] = "returned" /\ chanC[p] = <<ErrSmtp>>
        /\ Len(chanC[p]) = ChanCap
        /\ \E i \in DOMAIN emails : emails[i].status = "failed" /\ emails[i].error = ErrTimeout

====
